---------------------------- MODULE Spec2Model ----------------------------
(***************************************************************************)
(* djemini: the ingest (sync), classify (analyze), synthesize (create) and  *)
(* publish (push) commands over the SQLite store, the remote catalog       *)
(* (YouTube) and the AI service (Gemini).  Each command has its own        *)
(* specification over the shared store; a table row carries the columns    *)
(* the command under study reads or writes.                                *)
(*                                                                         *)
(* Remote calls are suspension points of the command handlers, so every    *)
(* handler is cut at its awaits: one action issues a call, the next one    *)
(* consumes its outcome.  A user interrupt terminates the process at any   *)
(* such point (Crash).                                                     *)
(***************************************************************************)
EXTENDS Integers, Sequences, FiniteSets, TLC

(***************************************************************************)
(* Bounds of the model.                                                    *)
(***************************************************************************)
MaxPlaylists == 2
MaxMembers == 2
MaxRuns == 3
ExtraSongs == 1
MaxEntries == 2
MaxAiCalls == 2
MaxSources == 2
MaxVideos == 1
MaxFetches == 2
MaxSuggestions == 2
MaxCreateRuns == 2

(***************************************************************************)
(* Program constants.                                                      *)
(***************************************************************************)
BATCH_SIZE == 15

(***************************************************************************)
(* Values.                                                                 *)
(***************************************************************************)
\* SQL NULL / JS null for playlists.youtube_playlist_id; a remote id is <<n>>.
NULL == <<>>

PlaylistIds == 1..MaxPlaylists
SongIds == 1..MaxMembers

\* An error thrown by a remote call: its .code and whether its .message
\* contains the substring 'quota'.
Errors == [code : {403, 500}, quotaMsg : BOOLEAN]

NoReport == [kind |-> "none"]

\* String.prototype.toLowerCase on the strings of the model
toLowerCase(str) ==
    CASE str = "PLa" -> "pla"
      [] str = "PLb" -> "plb"
      [] str = "Podcast" -> "podcast"
      [] str = "News" -> "news"
      [] str = "Topic" -> "topic"
      [] str = "Song" -> "song"
      [] str = "Remix" -> "remix"
      [] str = "Artist" -> "artist"
      [] str = "Other" -> "other"
      [] str = "Host" -> "host"
      [] str = "Unknown" -> "unknown"
      [] OTHER -> str

Reverse(s) == [k \in 1..Len(s) |-> s[Len(s) + 1 - k]]

Range(s) == {s[k] : k \in 1..Len(s)}

\* The rows of S as the create command inserts them: playlist after playlist,
\* each playlist's members in one pass.
RECURSIVE MembershipRows(_)
MembershipRows(S) ==
    IF S = {} THEN <<>>
    ELSE LET first == CHOOSE r \in S : \A q \in S :
                         \/ r.playlist_id < q.playlist_id
                         \/ r.playlist_id = q.playlist_id /\ r.song_id <= q.song_id
         IN  <<first>> \o MembershipRows(S \ {first})

VARIABLES
    \* ---- Store (SQLite tables) ----
    songs,            \* songs rows, insertion order: [id, ai_processed], with title,
                      \* artist and source_id where sync is studied
    categories,       \* categories rows, insertion order: [song_id, type, value]
    playlists,        \* playlists rows, insertion order: [id, youtube_playlist_id], with
                      \* name where create is studied
    playlist_songs,   \* playlist_songs rows, insertion order: [playlist_id, song_id]
    tokenFile,        \* data/token.json exists and parses
    \* ---- remote catalog ----
    remotePlaylists,  \* ids of the playlists on the platform
    remoteItems,      \* <<rid, song>>: items of the remote playlists
    \* ---- handlePushCommand locals ----
    pc, runPlaylists, idx, curSongs, i, youtubePlaylistId,
    addedCount, failedCount, created, skipped, totalAdded, totalFailed,
    reported,         \* what the run logged when it ended
    \* ---- history ----
    runs,             \* push runs started
    runCalls,         \* remote calls issued by the current push run, in order
    createCalls,      \* per local playlist row: create-playlist calls ever issued
    quotaFailAt,      \* Len(runCalls) when an add-item call failed on quota in this run (0: none)
    haltRun,          \* per local playlist row: did a run halt on quota inside it ("no", "this" run, an "earlier" run)
    \* ---- prompt (main.handleInput) ----
    suspended,        \* the handlePushCommand invocations that wait for a response
                      \* while a later one runs: their position and locals
    \* ---- handleAnalyzeCommand locals ----
    apc, type, unprocessedSongs, bi, processed, failed,
    \* ---- history ----
    aiCalls,          \* categorization requests issued so far
    aiLog,            \* the AI calls of the current analyze run, in order
    \* ---- Store: sources table, insertion order: [id, last_synced] ----
    sources,
    \* ---- sync command (handleCommand 'sync', SyncService) locals ----
    spc, syncMode, syncQueue,
    \* ---- history ----
    fetches,          \* upstream listings requested so far
    syncLog,          \* the syncSource calls of the current sync run, in order
    prevSync,         \* source and listing of the latest syncSource that returned
    catalog,          \* the videos the platform may list: [id, title, channelTitle]
    \* ---- handleCreateCommand locals ----
    cpc, songsWithCategories,
    \* ---- history ----
    createRuns,       \* create runs started
    createLog,        \* the suggestions the latest create run received, how it ended, and
                      \* whether the service answered it as it answered the run before
    \* ---- Store: sqlite_sequence of sources (AUTOINCREMENT) ----
    sourceSeq,
    \* ---- history ----
    lastOp            \* the latest 'sources' or 'reset' command: its input and the
                      \* tables it found

storeVars == <<songs, categories, playlists, playlist_songs, tokenFile>>
remoteVars == <<remotePlaylists, remoteItems>>
pushLocals == <<runPlaylists, idx, curSongs, i, youtubePlaylistId,
                addedCount, failedCount, created, skipped, totalAdded, totalFailed>>
pushHist == <<runs, runCalls, createCalls, quotaFailAt, haltRun>>
pushVars == <<pc, pushLocals, reported, pushHist, suspended>>
analyzeVars == <<apc, type, unprocessedSongs, bi, processed, failed, aiCalls, aiLog>>
syncVars == <<sources, spc, syncMode, syncQueue, fetches, syncLog, prevSync, catalog>>
createVars == <<cpc, songsWithCategories, createRuns, createLog>>
adminVars == <<sourceSeq, lastOp>>
vars == <<storeVars, remoteVars, pushVars, analyzeVars, syncVars, createVars, adminVars>>

(***************************************************************************)
(* Store operations (src/db/index.ts).                                     *)
(***************************************************************************)
\* SELECT * FROM playlists ORDER BY created_at DESC
getAllPlaylists == Reverse(playlists)

\* SELECT s.* FROM songs s JOIN playlist_songs ps ... WHERE ps.playlist_id = ?
\* ORDER BY ps.added_at DESC  (the song ids of the rows)
getPlaylistSongs(playlistId) ==
    LET rows == SelectSeq(playlist_songs,
                          LAMBDA r : r.playlist_id = playlistId
                                     /\ \E k \in 1..Len(songs) : songs[k].id = r.song_id)
    IN  Reverse([k \in 1..Len(rows) |-> rows[k].song_id])

updatePlaylistYouTubeId_Skip(id, youtubePlaylistId_) == playlists

\* UPDATE playlists SET youtube_playlist_id = ? WHERE id = ?
updatePlaylistYouTubeId(id, youtubePlaylistId_) ==
    [k \in 1..Len(playlists) |->
        IF playlists[k].id = id
        THEN [playlists[k] EXCEPT !.youtube_playlist_id = youtubePlaylistId_]
        ELSE playlists[k]]

PlaylistRow(id) == CHOOSE r \in Range(playlists) : r.id = id

(***************************************************************************)
(* handlePushCommand (src/src/cli/sources.ts).                             *)
(***************************************************************************)
IsQuotaError_CodeOnly(error) == error.code = 403

\* error.message?.includes('quota') || error.code === 403
IsQuotaError(error) == error.quotaMsg \/ error.code = 403

NeedsCreate_Always(playlist) == TRUE

\* !playlist.youtube_playlist_id
NeedsCreate(playlist) == playlist.youtube_playlist_id = NULL

FailedAfterError_Lost(n) == n

\* failedCount++ in the catch of the add-item call
FailedAfterError(n) == n + 1

AddedAfterSuccess_Lost(n) == n

\* addedCount++ after the add-item call resolved
AddedAfterSuccess(n) == n + 1

\* createResponse.data.id: an identifier the platform has not handed out yet
\* (<<p, k>>: the k-th remote playlist created for local row p)
FreshRemoteId(p) == <<p, Cardinality({rid \in remotePlaylists : rid[1] = p}) + 1>>

\* A request to the platform: playlists.insert for local row pid, or
\* playlistItems.insert of videoId song into playlistId rid.
Call(op, pid, rid, song) == [op |-> op, pid |-> pid, rid |-> rid, song |-> song]

ResetLocals ==
    /\ idx' = 1
    /\ curSongs' = <<>>
    /\ i' = 0
    /\ youtubePlaylistId' = NULL
    /\ addedCount' = 0
    /\ failedCount' = 0
    /\ created' = 0
    /\ skipped' = 0
    /\ totalAdded' = 0
    /\ totalFailed' = 0

\* Entry of the handler up to the loop: loadToken() (which returns false instead
\* of throwing, so the catch never runs), getAllPlaylists(), the empty check,
\* the 2 s warning pause and the counters.
PushEntry ==
    /\ runs < MaxRuns
    /\ runs' = runs + 1
    /\ ResetLocals
    /\ runPlaylists' = getAllPlaylists
    /\ runCalls' = <<>>
    /\ quotaFailAt' = 0
    /\ reported' = NoReport
    /\ pc' = IF Len(getAllPlaylists) = 0 THEN "done" ELSE "loop"
    /\ haltRun' = [p \in PlaylistIds |-> IF haltRun[p] = "no" THEN "no" ELSE "earlier"]
    /\ UNCHANGED <<storeVars, remoteVars, createCalls>>

\* 'push' entered at the prompt while no earlier push is under way.
PushStart ==
    /\ UNCHANGED <<analyzeVars, syncVars, createVars, adminVars, suspended>>
    /\ pc \in {"idle", "done"}
    /\ PushEntry

\* One turn of `for (const playlist of playlists)` up to its first await:
\* a playlist without songs or with a remote id is skipped, for the others
\* youtube.playlists.insert is issued.
PushNextPlaylist ==
    /\ UNCHANGED <<analyzeVars, syncVars, createVars, adminVars, suspended>>
    /\ pc = "loop"
    /\ idx <= Len(runPlaylists)
    /\ LET playlist == runPlaylists[idx]
           songs_ == getPlaylistSongs(playlist.id)
       IN  IF Len(songs_) = 0
           THEN /\ skipped' = skipped + 1
                /\ idx' = idx + 1
                /\ UNCHANGED <<pc, curSongs, runCalls, createCalls>>
           ELSE IF NeedsCreate(playlist)
           THEN /\ pc' = "creating"
                /\ curSongs' = songs_
                /\ runCalls' = Append(runCalls, Call("create", playlist.id, NULL, 0))
                /\ createCalls' = [createCalls EXCEPT ![playlist.id] = @ + 1]
                /\ UNCHANGED <<skipped, idx>>
           ELSE /\ skipped' = skipped + 1
                /\ idx' = idx + 1
                /\ curSongs' = songs_
                /\ UNCHANGED <<pc, runCalls, createCalls>>
    /\ UNCHANGED <<storeVars, remoteVars, runPlaylists, i, youtubePlaylistId,
                   addedCount, failedCount, created, totalAdded, totalFailed,
                   reported, runs, quotaFailAt, haltRun>>

\* youtube.playlists.insert resolved: the id is stored and the member loop starts.
PushCreateOk ==
    /\ UNCHANGED <<analyzeVars, syncVars, createVars, adminVars, suspended>>
    /\ pc = "creating"
    /\ tokenFile
    /\ LET playlist == runPlaylists[idx]
           rid == FreshRemoteId(playlist.id)
       IN  /\ remotePlaylists' = remotePlaylists \cup {rid}
           /\ youtubePlaylistId' = rid
           /\ playlists' = updatePlaylistYouTubeId(playlist.id, rid)
    /\ addedCount' = 0
    /\ failedCount' = 0
    /\ i' = 0
    /\ pc' = "item"
    /\ UNCHANGED <<songs, categories, playlist_songs, tokenFile, remoteItems,
                   runPlaylists, idx, curSongs, created, skipped, totalAdded,
                   totalFailed, reported, pushHist>>

\* youtube.playlists.insert rejected: the outer catch.
PushCreateFail ==
    /\ UNCHANGED <<analyzeVars, syncVars, createVars, adminVars, suspended>>
    /\ pc = "creating"
    /\ \E error \in Errors :
          IF IsQuotaError(error)
          THEN /\ pc' = "done"
               /\ reported' = [kind |-> "quota_create"]
               /\ UNCHANGED idx
          ELSE /\ pc' = "loop"
               /\ idx' = idx + 1
               /\ UNCHANGED reported
    /\ UNCHANGED <<storeVars, remoteVars, runPlaylists, curSongs, i, youtubePlaylistId,
                   addedCount, failedCount, created, skipped, totalAdded, totalFailed,
                   pushHist>>

\* `for (let i = 0; i < songs.length; i++)`: youtube.playlistItems.insert is issued
\* for songs[i].
PushAddIssue ==
    /\ UNCHANGED <<analyzeVars, syncVars, createVars, adminVars, suspended>>
    /\ pc = "item"
    /\ i < Len(curSongs)
    /\ runCalls' = Append(runCalls, Call("add", runPlaylists[idx].id, youtubePlaylistId, curSongs[i + 1]))
    /\ pc' = "adding"
    /\ UNCHANGED <<storeVars, remoteVars, pushLocals, reported,
                   runs, createCalls, quotaFailAt, haltRun>>

\* youtube.playlistItems.insert resolved.
PushAddOk ==
    /\ UNCHANGED <<analyzeVars, syncVars, createVars, adminVars, suspended>>
    /\ pc = "adding"
    /\ tokenFile
    /\ remoteItems' = remoteItems \cup {<<youtubePlaylistId, curSongs[i + 1]>>}
    /\ addedCount' = AddedAfterSuccess(addedCount)
    /\ i' = i + 1
    /\ pc' = "item"
    /\ UNCHANGED <<storeVars, remotePlaylists, runPlaylists, idx, curSongs,
                   youtubePlaylistId, failedCount, created, skipped, totalAdded,
                   totalFailed, reported, pushHist>>

\* youtube.playlistItems.insert rejected: the inner catch.
PushAddFail ==
    /\ UNCHANGED <<analyzeVars, syncVars, createVars, adminVars, suspended>>
    /\ pc = "adding"
    /\ \E error \in Errors :
          /\ failedCount' = FailedAfterError(failedCount)
          /\ UNCHANGED addedCount
          /\ IF IsQuotaError(error)
             THEN /\ pc' = "done"
                  /\ reported' = [kind |-> "quota_item",
                                  pid |-> runPlaylists[idx].id,
                                  added |-> addedCount,
                                  failed |-> failedCount']
                  /\ UNCHANGED i
             ELSE /\ pc' = "item"
                  /\ i' = i + 1
                  /\ UNCHANGED reported
          \* history: where a genuine quota signal was received
          /\ IF error.quotaMsg \/ error.code = 403
             THEN /\ quotaFailAt' = IF quotaFailAt = 0 THEN Len(runCalls) ELSE quotaFailAt
                  /\ haltRun' = [haltRun EXCEPT ![runPlaylists[idx].id] = "this"]
             ELSE UNCHANGED <<quotaFailAt, haltRun>>
    /\ UNCHANGED <<storeVars, remoteVars, runPlaylists, idx, curSongs, youtubePlaylistId,
                   created, skipped, totalAdded, totalFailed, runs, runCalls, createCalls>>

\* After the member loop: the per-playlist summary, the totals and the 500 ms pause.
PushFinishPlaylist ==
    /\ UNCHANGED <<analyzeVars, syncVars, createVars, adminVars, suspended>>
    /\ pc = "item"
    /\ i >= Len(curSongs)
    /\ totalAdded' = totalAdded + addedCount
    /\ totalFailed' = totalFailed + failedCount
    /\ created' = created + 1
    /\ idx' = idx + 1
    /\ pc' = "loop"
    /\ UNCHANGED <<storeVars, remoteVars, runPlaylists, curSongs, i, youtubePlaylistId,
                   addedCount, failedCount, skipped, reported, pushHist>>

\* After the playlist loop: 'Push complete' and the counts.
PushSummary ==
    /\ UNCHANGED <<analyzeVars, syncVars, createVars, adminVars, suspended>>
    /\ pc = "loop"
    /\ idx > Len(runPlaylists)
    /\ pc' = "done"
    /\ reported' = [kind |-> "complete", created |-> created, skipped |-> skipped,
                    totalAdded |-> totalAdded, totalFailed |-> totalFailed]
    /\ UNCHANGED <<storeVars, remoteVars, pushLocals, pushHist>>

\* The process is terminated while the handler is suspended.  A request in
\* flight may or may not have been carried out by the platform.
Crash ==
    /\ UNCHANGED <<analyzeVars, syncVars, createVars, adminVars, suspended>>
    /\ pc \in {"loop", "creating", "item", "adding"}
    /\ \E executed \in BOOLEAN :
          /\ executed => tokenFile /\ pc \in {"creating", "adding"}
          /\ remotePlaylists' =
                IF executed /\ pc = "creating"
                THEN remotePlaylists \cup {FreshRemoteId(runPlaylists[idx].id)}
                ELSE remotePlaylists
          /\ remoteItems' =
                IF executed /\ pc = "adding"
                THEN remoteItems \cup {<<youtubePlaylistId, curSongs[i + 1]>>}
                ELSE remoteItems
    /\ pc' = "idle"
    /\ runPlaylists' = <<>>
    /\ ResetLocals
    /\ reported' = NoReport
    /\ runCalls' = <<>>
    /\ quotaFailAt' = 0
    /\ UNCHANGED <<storeVars, runs, createCalls, haltRun>>

PushIdle ==
    /\ pc = "idle"
    /\ runPlaylists = <<>>
    /\ idx = 1
    /\ curSongs = <<>>
    /\ i = 0
    /\ youtubePlaylistId = NULL
    /\ addedCount = 0
    /\ failedCount = 0
    /\ created = 0
    /\ skipped = 0
    /\ totalAdded = 0
    /\ totalFailed = 0
    /\ reported = NoReport
    /\ runs = 0
    /\ runCalls = <<>>
    /\ createCalls = [p \in PlaylistIds |-> 0]
    /\ quotaFailAt = 0
    /\ haltRun = [p \in PlaylistIds |-> "no"]
    /\ suspended = <<>>

AnalyzeIdle ==
    /\ apc = "idle"
    /\ type = "all"
    /\ unprocessedSongs = <<>>
    /\ bi = 0
    /\ processed = 0
    /\ failed = 0
    /\ aiCalls = 0
    /\ aiLog = <<>>

NoSync == [source |-> 0, videos |-> <<>>]

SyncIdle ==
    /\ spc = "idle"
    /\ syncMode = "all"
    /\ syncQueue = <<>>
    /\ fetches = 0
    /\ syncLog = <<>>
    /\ prevSync = NoSync

NoCreate == [suggestions |-> <<>>, outcome |-> "none", repeat |-> FALSE]

CreateIdle ==
    /\ cpc = "idle"
    /\ songsWithCategories = <<>>
    /\ createRuns = 0
    /\ createLog = NoCreate

NoOp == [n |-> 0, op |-> "none"]

AdminIdle ==
    /\ sourceSeq = Len(sources)
    /\ lastOp = NoOp

(***************************************************************************)
(* Publishing: the store holds playlists as the create command leaves      *)
(* them: every row without a remote id and with at least one member.       *)
(***************************************************************************)
InitPush ==
    /\ songs = [k \in 1..MaxMembers |-> [id |-> k, ai_processed |-> TRUE]]
    /\ categories = <<>>
    /\ \E n \in 1..MaxPlaylists :
          /\ playlists = [p \in 1..n |-> [id |-> p, youtube_playlist_id |-> NULL]]
          \* the songs are interchangeable for the publisher: playlist p holds
          \* the songs 1..p (at most MaxMembers)
          /\ playlist_songs = MembershipRows(
                {r \in [playlist_id : 1..n, song_id : SongIds] :
                    r.song_id <= r.playlist_id})
    /\ tokenFile \in BOOLEAN
    /\ remotePlaylists = {}
    /\ remoteItems = {}
    /\ sources = <<>>
    /\ PushIdle
    /\ AnalyzeIdle
    /\ catalog = {}
    /\ SyncIdle
    /\ CreateIdle
    /\ AdminIdle

NextPush ==
    \/ PushStart
    \/ PushNextPlaylist
    \/ PushCreateOk
    \/ PushCreateFail
    \/ PushAddIssue
    \/ PushAddOk
    \/ PushAddFail
    \/ PushFinishPlaylist
    \/ PushSummary
    \/ Crash

SpecPush == InitPush /\ [][NextPush]_vars

(***************************************************************************)
(* main.handleInput (src/src/index.ts).  The keypress listener stays on    *)
(* while handleCommand is awaited (only 'sources', 'playlists clear' and   *)
(* 'reset' call pauseKeypress), so a line entered while handlePushCommand  *)
(* waits for the platform starts another handleCommand at once.            *)
(***************************************************************************)
MaxSuspended == 1

\* The invocation that is running, as it is kept while another one runs.
Saved ==
    [pc |-> pc, runPlaylists |-> runPlaylists, idx |-> idx, curSongs |-> curSongs,
     i |-> i, youtubePlaylistId |-> youtubePlaylistId, addedCount |-> addedCount,
     failedCount |-> failedCount, created |-> created, skipped |-> skipped,
     totalAdded |-> totalAdded, totalFailed |-> totalFailed, reported |-> reported,
     runCalls |-> runCalls, quotaFailAt |-> quotaFailAt]

\* The positions at which handlePushCommand waits for youtube.playlists.insert
\* or youtube.playlistItems.insert.
AtRemoteCall == pc \in {"creating", "adding"}

\* key.name === 'return' with 'push' in the input buffer while an earlier
\* handlePushCommand waits for a response: `await handleCommand(command)` runs
\* the new invocation up to its first await.
handleInput ==
    /\ UNCHANGED <<analyzeVars, syncVars, createVars, adminVars>>
    /\ AtRemoteCall
    /\ Len(suspended) < MaxSuspended
    /\ suspended' = Append(suspended, Saved)
    /\ PushEntry

\* The response of the platform to a waiting invocation arrives while the
\* running one waits or has returned: the event loop continues the waiting one.
Resume ==
    /\ UNCHANGED <<analyzeVars, syncVars, createVars, adminVars>>
    /\ suspended # <<>>
    /\ AtRemoteCall \/ pc = "done"
    /\ LET other == Head(suspended)
       IN  /\ pc' = other.pc
           /\ runPlaylists' = other.runPlaylists
           /\ idx' = other.idx
           /\ curSongs' = other.curSongs
           /\ i' = other.i
           /\ youtubePlaylistId' = other.youtubePlaylistId
           /\ addedCount' = other.addedCount
           /\ failedCount' = other.failedCount
           /\ created' = other.created
           /\ skipped' = other.skipped
           /\ totalAdded' = other.totalAdded
           /\ totalFailed' = other.totalFailed
           /\ reported' = other.reported
           /\ runCalls' = other.runCalls
           /\ quotaFailAt' = other.quotaFailAt
    /\ suspended' = IF pc = "done" THEN Tail(suspended)
                    ELSE Append(Tail(suspended), Saved)
    /\ UNCHANGED <<storeVars, remoteVars, runs, createCalls, haltRun>>

(***************************************************************************)
(* The prompt with the publisher: the store as the create command leaves   *)
(* it, a token file, and 'push' entered any number of times.               *)
(***************************************************************************)
InitPrompt ==
    /\ InitPush
    /\ tokenFile

NextPrompt ==
    \/ PushStart
    \/ handleInput
    \/ Resume
    \/ PushNextPlaylist
    \/ PushCreateOk
    \/ PushCreateFail
    \/ PushAddIssue
    \/ PushAddOk
    \/ PushAddFail
    \/ PushFinishPlaylist
    \/ PushSummary

SpecPrompt == InitPrompt /\ [][NextPrompt]_vars


(***************************************************************************)
(* GeminiService.analyzeSongs / parseResponse (src/src/services/gemini.ts) *)
(***************************************************************************)
\* A value the categories table rejects (value TEXT NOT NULL): JSON null.
NullValue == "<null>"

\* What the model answers for one entry of "analyses".  A missing mood or genre
\* list behaves like an empty one (`if (analysis.mood)` guards a loop), a
\* missing energy like the empty string (`if (analysis.energy)`).
NoAssignment == [mood |-> <<>>, genre |-> <<>>, energy |-> ""]
FullAssignment == [mood |-> <<"happy">>, genre |-> <<"pop">>, energy |-> "high"]
RejectedAssignment == [mood |-> <<"happy">>, genre |-> <<NullValue>>, energy |-> "high"]

Entry(n, sh) == [song_id |-> n, mood |-> sh.mood, genre |-> sh.genre, energy |-> sh.energy]

\* The entries of a response, by positional index: 0 is below every batch, 1
\* is in every batch, 2 is in every batch but one of a single song.  An entry
\* with no assignment, a full one, and one whose genre the table rejects; two
\* equal entries in one response give a repeated index.
Entries ==
    { Entry(0, FullAssignment), Entry(1, NoAssignment), Entry(1, FullAssignment),
      Entry(2, RejectedAssignment) }

\* parsed.analyses of a response that parses
Responses == UNION {[1..n -> Entries] : n \in 0..MaxEntries}

\* What makes the call fail: generateContent rejects (network), rejects with a
\* quota signal, or the text is not JSON with an "analyses" list (parse).
Failures == {"network", "quota", "parse"}

\* songIndex >= 0 && songIndex < songs.length
InRange(songIndex, n) == songIndex >= 0 /\ songIndex < n

parseResponse_FirstSong(response, batch) ==
    [k \in 1..Len(response) |->
        [song_id |-> batch[1], mood |-> response[k].mood,
         genre |-> response[k].genre, energy |-> response[k].energy]]

RECURSIVE parseResponse(_, _)
\* for (const analysis of parsed.analyses): keep the entries whose song_id - 1
\* indexes the batch, with the id of that song
parseResponse(response, batch) ==
    IF response = <<>> THEN <<>>
    ELSE LET analysis == Head(response)
             songIndex == analysis.song_id - 1
             rest == parseResponse(Tail(response), batch)
         IN  IF InRange(songIndex, Len(batch)) /\ songIndex + 1 \in DOMAIN batch
             THEN <<[song_id |-> batch[songIndex + 1], mood |-> analysis.mood,
                     genre |-> analysis.genre, energy |-> analysis.energy]>> \o rest
             ELSE rest

(***************************************************************************)
(* handleAnalyzeCommand (src/unnamed/part_002).                            *)
(***************************************************************************)
\* SELECT * FROM songs ORDER BY added_at DESC
getAllSongs == Reverse(songs)

markSongAsProcessed_Skip(table, id) == table

\* UPDATE songs SET ai_processed = 1 WHERE id = ?
markSongAsProcessed(table, id) ==
    [k \in 1..Len(table) |->
        IF table[k].id = id THEN [table[k] EXCEPT !.ai_processed = TRUE] ELSE table[k]]

Slice_FromStart(s, from) ==
    SubSeq(s, 1, IF BATCH_SIZE < Len(s) THEN BATCH_SIZE ELSE Len(s))

\* unprocessedSongs.slice(i, i + BATCH_SIZE)
Slice(s, from) ==
    SubSeq(s, from + 1, IF from + BATCH_SIZE < Len(s) THEN from + BATCH_SIZE ELSE Len(s))

\* The insertCategory calls the handler makes for one analysis, in order.
RowsOf(analysis, t) ==
    LET row(ty, v) == [song_id |-> analysis.song_id, type |-> ty, value |-> v]
        moods == IF t \in {"mood", "all"}
                 THEN [k \in 1..Len(analysis.mood) |-> row("mood", analysis.mood[k])]
                 ELSE <<>>
        genres == IF t \in {"genre", "all"}
                  THEN [k \in 1..Len(analysis.genre) |-> row("genre", analysis.genre[k])]
                  ELSE <<>>
        energy == IF t \in {"energy", "all"} /\ analysis.energy # ""
                  THEN <<row("energy", analysis.energy)>>
                  ELSE <<>>
    IN  moods \o genres \o energy

\* The first row insertCategory throws on (0: none).
FirstRejected(rows) ==
    IF \E k \in 1..Len(rows) : rows[k].value = NullValue
    THEN CHOOSE k \in 1..Len(rows) :
            /\ rows[k].value = NullValue
            /\ \A j \in 1..(k - 1) : rows[j].value # NullValue
    ELSE 0

RECURSIVE Persist(_, _, _)
\* `for (const analysis of analyses)`: the rows are inserted one statement at a
\* time, then the song is marked; a rejected row throws out of the loop.
Persist(analyses, t, st) ==
    IF analyses = <<>> THEN st
    ELSE LET rows == RowsOf(Head(analyses), t)
             bad == FirstRejected(rows)
         IN  IF bad # 0
             THEN [st EXCEPT !.categories = @ \o SubSeq(rows, 1, bad - 1), !.threw = TRUE]
             ELSE Persist(Tail(analyses), t,
                          [st EXCEPT !.categories = @ \o rows,
                                     !.songs = markSongAsProcessed(@, Head(analyses).song_id)])

FailedAfterBatchError_One(n, batch) == n + 1

\* failed += batch.length
FailedAfterBatchError(n, batch) == n + Len(batch)

Unprocessed_All(allSongs) == allSongs

\* allSongs.filter(s => !s.ai_processed): the type of the run plays no part
Unprocessed(allSongs) == SelectSeq(allSongs, LAMBDA r : ~r.ai_processed)

\* Entry of the handler: the --type flag, the songs without ai_processed, the
\* 'All songs have been analyzed' return.  (A missing GEMINI_API_KEY or an
\* invalid type returns before the store is read.)
AnalyzeStart ==
    /\ UNCHANGED <<storeVars, remoteVars, pushVars, syncVars, createVars, adminVars>>
    /\ apc \in {"idle", "done"}
    /\ aiCalls < MaxAiCalls
    /\ type' \in {"mood", "genre", "energy", "all"}
    /\ LET allSongs == getAllSongs
           rows == Unprocessed(allSongs)
       IN  /\ unprocessedSongs' = [k \in 1..Len(rows) |-> rows[k].id]
           /\ apc' = IF Len(rows) = 0 THEN "done" ELSE "batch"
    /\ bi' = 0
    /\ processed' = 0
    /\ failed' = 0
    /\ aiLog' = <<>>
    /\ UNCHANGED aiCalls

\* One batch whose call resolves with text that parses: the categories are
\* saved and the songs of the returned analyses marked.
AnalyzeBatchOk ==
    /\ UNCHANGED <<playlists, playlist_songs, tokenFile, remoteVars, pushVars, syncVars, createVars, adminVars>>
    /\ apc = "batch"
    /\ bi < Len(unprocessedSongs)
    /\ \E response \in Responses :
       \E batch \in {Slice(unprocessedSongs, bi)} :
       \E analyses \in {parseResponse(response, batch)} :
       \E st \in {Persist(analyses, type,
                          [categories |-> categories, songs |-> songs, threw |-> FALSE])} :
              /\ categories' = st.categories
              /\ songs' = st.songs
              /\ IF st.threw
                 THEN /\ failed' = FailedAfterBatchError(failed, batch)
                      /\ UNCHANGED processed
                 ELSE /\ processed' = processed + Len(analyses)
                      /\ UNCHANGED failed
              /\ aiLog' = Append(aiLog,
                    [batch |-> batch,
                     outcome |-> IF st.threw THEN "threw" ELSE "ok",
                     covered |-> {batch[response[k].song_id] :
                                    k \in {j \in 1..Len(response) :
                                             response[j].song_id \in 1..Len(batch)}}])
    /\ bi' = bi + BATCH_SIZE
    /\ aiCalls' = aiCalls + 1
    /\ UNCHANGED <<apc, type, unprocessedSongs>>

\* One batch whose call fails: analyzeSongs rethrows and the catch of the loop
\* tallies the batch.
AnalyzeBatchFail ==
    /\ UNCHANGED <<storeVars, remoteVars, pushVars, syncVars, createVars, adminVars>>
    /\ apc = "batch"
    /\ bi < Len(unprocessedSongs)
    /\ \E failure \in Failures :
          LET batch == Slice(unprocessedSongs, bi)
          IN  /\ failed' = FailedAfterBatchError(failed, batch)
              /\ aiLog' = Append(aiLog, [batch |-> batch, outcome |-> failure, covered |-> {}])
    /\ bi' = bi + BATCH_SIZE
    /\ aiCalls' = aiCalls + 1
    /\ UNCHANGED <<apc, type, unprocessedSongs, processed>>

\* After the loop: 'Analysis complete' and the two tallies.
AnalyzeSummary ==
    /\ UNCHANGED <<storeVars, remoteVars, pushVars, syncVars, createVars, adminVars>>
    /\ apc = "batch"
    /\ bi >= Len(unprocessedSongs)
    /\ apc' = "done"
    /\ UNCHANGED <<type, unprocessedSongs, bi, processed, failed, aiCalls, aiLog>>

(***************************************************************************)
(* Classifying: the store holds songs as sync leaves them (none analyzed), *)
(* either fewer than one batch or one batch and ExtraSongs more.           *)
(***************************************************************************)
InitAnalyze ==
    /\ \E n \in {ExtraSongs, BATCH_SIZE + ExtraSongs} :
          songs = [k \in 1..n |-> [id |-> k, ai_processed |-> FALSE]]
    /\ categories = <<>>
    /\ playlists = <<>>
    /\ playlist_songs = <<>>
    /\ tokenFile = TRUE
    /\ remotePlaylists = {}
    /\ remoteItems = {}
    /\ sources = <<>>
    /\ PushIdle
    /\ AnalyzeIdle
    /\ catalog = {}
    /\ SyncIdle
    /\ CreateIdle
    /\ AdminIdle

NextAnalyze ==
    \/ AnalyzeStart
    \/ AnalyzeBatchOk
    \/ AnalyzeBatchFail
    \/ AnalyzeSummary

SpecAnalyze == InitAnalyze /\ [][NextAnalyze]_vars

(***************************************************************************)
(* SyncService (src/src/services/sync.ts) and the sync command             *)
(* (src/src/index.ts).                                                     *)
(***************************************************************************)
\* CURRENT_TIMESTAMP in sources.last_synced
Synced == <<"synced">>

\* A text is the sequence of its tokens: words, blanks and occurrences of
\* the separators.  " -- " and " --- " stand for the separators written
\* with an en dash and an em dash.
separators == <<" - ", " -- ", " --- ", ": ", " | ">>

Blank == " "

\* `title || 'Unknown'`, `channelTitle || 'Unknown'`
OrUnknown(str) == IF str = <<>> THEN <<"Unknown">> ELSE str

\* String.prototype.includes for one separator
includes(str, sep) == \E k \in DOMAIN str : str[k] = sep

RECURSIVE split(_, _)
\* String.prototype.split: the parts between the occurrences of sep
split(str, sep) ==
    IF ~includes(str, sep) THEN <<str>>
    ELSE LET k == CHOOSE n \in DOMAIN str :
                     str[n] = sep /\ \A m \in 1..(n - 1) : str[m] # sep
         IN  <<SubSeq(str, 1, k - 1)>> \o split(SubSeq(str, k + 1, Len(str)), sep)

RECURSIVE join(_, _)
\* Array.prototype.join
join(parts, sep) ==
    IF parts = <<>> THEN <<>>
    ELSE IF Len(parts) = 1 THEN parts[1]
    ELSE parts[1] \o <<sep>> \o join(Tail(parts), sep)

RECURSIVE trim(_)
\* String.prototype.trim
trim(str) ==
    IF str = <<>> THEN <<>>
    ELSE IF Head(str) = Blank THEN trim(Tail(str))
    ELSE IF str[Len(str)] = Blank THEN trim(SubSeq(str, 1, Len(str) - 1))
    ELSE str

\* artist.replace(/ - Topic$/i, '').trim()
cleanArtistName(artist) ==
    IF /\ Len(artist) >= 2
       /\ artist[Len(artist) - 1] = " - "
       /\ toLowerCase(artist[Len(artist)]) = "topic"
    THEN trim(SubSeq(artist, 1, Len(artist) - 2))
    ELSE trim(artist)

RECURSIVE ExtractWith(_, _, _)
\* `for (const sep of separators)` from the separators seps on, and the
\* fallback after the loop
ExtractWith(seps, title, fallback) ==
    IF seps = <<>>
    THEN [artist |-> cleanArtistName(fallback), cleanTitle |-> title]
    ELSE LET sep == Head(seps)
             parts == split(title, sep)
         IN  IF includes(title, sep) /\ Len(parts) >= 2 /\ parts[1] # <<>>
             THEN [artist |-> cleanArtistName(trim(parts[1])),
                   cleanTitle |-> trim(join(Tail(parts), sep))]
             ELSE ExtractWith(Tail(seps), title, fallback)

extractArtistFromTitle_LastSeparator(title, fallback) ==
    ExtractWith(Reverse(separators), title, fallback)

extractArtistFromTitle(title, fallback) == ExtractWith(separators, title, fallback)

\* An item of a listing as the platform delivers it (video.id, snippet.title,
\* snippet.channelTitle)
Item(n, t, c) == [id |-> n, title |-> t, channelTitle |-> c]

\* What the platform lists in the sync runs: video 1 under two different
\* titles, video 2, and a podcast episode.
Items ==
    { Item(1, <<"Song">>, <<"Artist">>),
      Item(1, <<"Other", " - ", "Remix">>, <<"Artist">>),
      Item(2, <<"Song">>, <<"Artist">>),
      Item(3, <<"Podcast">>, <<"Host">>) }

\* The listings a fetch can return: items of the catalog
ItemLists == UNION {[1..n -> catalog] : n \in 0..MaxVideos}

\* What had arrived when a request of a fetch is rejected: nothing, or a
\* page with one video
PagesBeforeError == {<<>>} \cup {<<item>> : item \in catalog}

\* fetchLikedVideos / fetchPlaylistVideos once every page arrived: the
\* VideoItem of every listed video
fetchPlaylistVideos(items) ==
    [k \in 1..Len(items) |->
        LET title == OrUnknown(items[k].title)
            actualChannelTitle == OrUnknown(items[k].channelTitle)
            extracted == extractArtistFromTitle(title, actualChannelTitle)
        IN  [id |-> items[k].id, title |-> extracted.cleanTitle,
             artist |-> extracted.artist, channelTitle |-> actualChannelTitle]]

\* The sources of nonMusicPatterns
nonMusicPatterns ==
    {"podcast", "interview", "talk show", "documentary", "news", "vlog",
     "review", "reaction", "tutorial", "lesson", "course"}

\* pattern.test(text) for some pattern, text a sequence of tokens: a token
\* is a term (a match inside a longer word is not represented)
SomePatternMatches(text) ==
    \E k \in DOMAIN text : toLowerCase(text[k]) \in nonMusicPatterns

\* !nonMusicPatterns.some(pattern => pattern.test(text)) with
\* text = `${video.title} ${video.channelTitle}`.toLowerCase()
IsMusic(video) == ~SomePatternMatches(video.title \o <<Blank>> \o video.channelTitle)

filterMusicVideos(videos) == SelectSeq(videos, IsMusic)

\* What syncSource has stored when an await of its fetch rejects after some
\* pages arrived: the error leaves syncSource before filterMusicVideos and
\* insertSongs
AfterFailedFetch_Partial(table, rows) ==
    table \o [k \in 1..Len(rows) |->
                [id |-> rows[k].id, title |-> rows[k].title, artist |-> rows[k].artist,
                 source_id |-> rows[k].source_id, ai_processed |-> FALSE]]

AfterFailedFetch(table, rows) == table

\* SELECT * FROM sources WHERE id = ?
getSourceById(id) ==
    IF \E k \in DOMAIN sources : sources[k].id = id
    THEN sources[CHOOSE k \in DOMAIN sources : sources[k].id = id]
    ELSE NULL

\* SELECT ... FROM sources ... ORDER BY s.created_at DESC  (the ids)
getAllSources == Reverse([k \in 1..Len(sources) |-> sources[k].id])

\* UPDATE sources SET last_synced = CURRENT_TIMESTAMP WHERE id = ?
updateSourceSyncTime(table, id) ==
    [k \in 1..Len(table) |->
        IF table[k].id = id THEN [table[k] EXCEPT !.last_synced = Synced] ELSE table[k]]

RECURSIVE insertSongs_NoIgnore(_, _)
insertSongs_NoIgnore(table, rows) ==
    IF rows = <<>> THEN table
    ELSE insertSongs_NoIgnore(
            Append(table, [id |-> Head(rows).id, title |-> Head(rows).title,
                           artist |-> Head(rows).artist,
                           source_id |-> Head(rows).source_id,
                           ai_processed |-> FALSE]),
            Tail(rows))

RECURSIVE insertSongs_Replace(_, _)
insertSongs_Replace(table, rows) ==
    IF rows = <<>> THEN table
    ELSE insertSongs_Replace(
            Append(SelectSeq(table, LAMBDA r : r.id # Head(rows).id),
                   [id |-> Head(rows).id, title |-> Head(rows).title,
                    artist |-> Head(rows).artist,
                    source_id |-> Head(rows).source_id,
                    ai_processed |-> FALSE]),
            Tail(rows))

RECURSIVE insertSongs(_, _)
\* INSERT OR IGNORE INTO songs (id, title, artist, source_id), row after row
\* in one transaction; ai_processed takes its default 0.
insertSongs(table, rows) ==
    IF rows = <<>> THEN table
    ELSE LET song == Head(rows)
         IN  insertSongs(
                IF \E k \in DOMAIN table : table[k].id = song.id
                THEN table
                ELSE Append(table, [id |-> song.id, title |-> song.title,
                                    artist |-> song.artist,
                                    source_id |-> song.source_id,
                                    ai_processed |-> FALSE]),
                Tail(rows))

\* The sources still to sync once syncSource has thrown: the catch of the
\* command encloses the whole `for (const source of sources)` loop.
AfterError(queue) == <<>>

\* The sync command up to its first await: the SyncService constructor
\* (throws without a token), --source=<id> or every source, getSourceById.
SyncStart ==
    /\ UNCHANGED <<storeVars, remoteVars, pushVars, analyzeVars, createVars, adminVars>>
    /\ spc \in {"idle", "done"}
    /\ fetches < MaxFetches
    /\ \E target \in {0} \cup (1..(Len(sources) + 1)) :
          LET queue == IF target = 0 THEN getAllSources
                       ELSE IF getSourceById(target) = NULL THEN <<>>
                       ELSE <<target>>
          IN  /\ syncMode' = IF target = 0 THEN "all" ELSE "one"
              /\ syncQueue' = IF tokenFile THEN queue ELSE <<>>
              /\ spc' = IF tokenFile /\ queue # <<>> THEN "fetch" ELSE "done"
    /\ syncLog' = <<>>
    /\ UNCHANGED <<sources, fetches, prevSync, catalog>>

\* syncSource after its listing arrived: filter, insertSongs and
\* updateSourceSyncTime when a track is left, then the next source.
SyncFetchOk ==
    /\ UNCHANGED <<categories, playlists, playlist_songs, tokenFile,
                   remoteVars, pushVars, analyzeVars, createVars, adminVars>>
    /\ spc = "fetch"
    /\ \E videos \in ItemLists :
       \E musicVideos \in {filterMusicVideos(fetchPlaylistVideos(videos))} :
          LET sourceId == Head(syncQueue)
              rows == [k \in 1..Len(musicVideos) |->
                         [id |-> musicVideos[k].id, title |-> musicVideos[k].title,
                          artist |-> musicVideos[k].artist, source_id |-> sourceId]]
          IN  /\ IF Len(rows) > 0
                 THEN /\ songs' = insertSongs(songs, rows)
                      /\ sources' = updateSourceSyncTime(sources, sourceId)
                 ELSE UNCHANGED <<songs, sources>>
              /\ syncLog' = Append(syncLog,
                    [source |-> sourceId,
                     outcome |-> IF Len(rows) > 0 THEN "ok" ELSE "empty",
                     quota |-> FALSE,
                     repeat |-> prevSync = [source |-> sourceId, videos |-> videos],
                     conflict |-> \E k \in DOMAIN rows : \E j \in DOMAIN songs :
                                     /\ songs[j].id = rows[k].id
                                     /\ \/ songs[j].title # rows[k].title
                                        \/ songs[j].source_id # sourceId])
              /\ prevSync' = [source |-> sourceId, videos |-> videos]
    /\ syncQueue' = Tail(syncQueue)
    /\ spc' = IF Tail(syncQueue) = <<>> THEN "done" ELSE "fetch"
    /\ fetches' = fetches + 1
    /\ UNCHANGED <<syncMode, catalog>>

\* syncSource whose fetch fails, on its first request or after pages have
\* arrived: the error leaves syncSource and the loop of the command, and is
\* logged by the catch of the command.
SyncFetchFail ==
    /\ UNCHANGED <<categories, playlists, playlist_songs, tokenFile,
                   remoteVars, pushVars, analyzeVars, createVars, adminVars>>
    /\ spc = "fetch"
    /\ \E error \in Errors : \E fetched \in PagesBeforeError :
          LET sourceId == Head(syncQueue)
              videos == fetchPlaylistVideos(fetched)
              rows == [k \in 1..Len(videos) |->
                         [id |-> videos[k].id, title |-> videos[k].title,
                          artist |-> videos[k].artist, source_id |-> sourceId]]
          IN  /\ songs' = AfterFailedFetch(songs, rows)
              /\ syncLog' = Append(syncLog,
                    [source |-> sourceId, outcome |-> "error",
                     quota |-> IsQuotaError(error), repeat |-> FALSE, conflict |-> FALSE,
                     partial |-> fetched # <<>>])
    /\ syncQueue' = AfterError(syncQueue)
    /\ spc' = IF AfterError(syncQueue) = <<>> THEN "done" ELSE "fetch"
    /\ fetches' = fetches + 1
    /\ UNCHANGED <<sources, syncMode, prevSync, catalog>>

(***************************************************************************)
(* Ingesting: up to MaxSources tracked sources, none synced yet and no     *)
(* song, or the first one synced with its one song already classified.     *)
(***************************************************************************)
InitSync ==
    /\ \E n \in 1..MaxSources : \E before \in BOOLEAN :
          /\ sources = [k \in 1..n |->
                 [id |-> k, last_synced |-> IF before /\ k = 1 THEN Synced ELSE NULL]]
          /\ songs = IF before
                     THEN <<[id |-> 1, title |-> <<"Song">>, artist |-> <<"Artist">>,
                             source_id |-> 1, ai_processed |-> TRUE]>>
                     ELSE <<>>
    /\ categories = <<>>
    /\ playlists = <<>>
    /\ playlist_songs = <<>>
    /\ tokenFile \in BOOLEAN
    /\ remotePlaylists = {}
    /\ remoteItems = {}
    /\ PushIdle
    /\ AnalyzeIdle
    /\ catalog = Items
    /\ SyncIdle
    /\ CreateIdle
    /\ AdminIdle

NextSync ==
    \/ SyncStart
    \/ SyncFetchOk
    \/ SyncFetchFail

SpecSync == InitSync /\ [][NextSync]_vars

(***************************************************************************)
(* Ingesting one video: a tracked source, no song stored, and a platform   *)
(* that lists one video whose title is any text of up to MaxTitle tokens.  *)
(***************************************************************************)
MaxTitle == 3

Tokens == Range(separators) \cup {"Song", "Podcast", Blank}

Titles == UNION {[1..n -> Tokens] : n \in 0..MaxTitle}

\* Channel names: plain, an auto-generated artist channel, a news channel
Channels == {<<"Artist">>, <<"Artist", " - ", "Topic">>, <<"News">>}

InitFetch ==
    /\ sources = <<[id |-> 1, last_synced |-> NULL]>>
    /\ songs = <<>>
    /\ categories = <<>>
    /\ playlists = <<>>
    /\ playlist_songs = <<>>
    /\ tokenFile = TRUE
    /\ remotePlaylists = {}
    /\ remoteItems = {}
    /\ \E t \in Titles : \E c \in Channels : catalog = {Item(1, t, c)}
    /\ PushIdle
    /\ AnalyzeIdle
    \* the sync of the video is the last listing that is followed
    /\ spc = "idle"
    /\ syncMode = "all"
    /\ syncQueue = <<>>
    /\ fetches = MaxFetches - 1
    /\ syncLog = <<>>
    /\ prevSync = NoSync
    /\ CreateIdle
    /\ AdminIdle

SpecFetch == InitFetch /\ [][NextSync]_vars

(***************************************************************************)
(* handleSourcesCommand, discoverPlaylists (src/src/cli/sources.ts) and    *)
(* the reset command (src/src/index.ts, DatabaseService.resetData).        *)
(***************************************************************************)
MaxOps == 3

\* songs.source_id IS NULL (source ids start at 1)
NoSource == 0

\* Playlist ids of the platform: they are case-sensitive.
RemoteIds == {"PLa", "PLb"}

\* What the user types after 'sources add': a URL with a list parameter, or
\* a text without one.
Urls == [list : RemoteIds \cup {"pla"}] \cup {[list |-> ""]}

\* url.match(/[?&]list=([^&]+)/)?.[1] || null
extractPlaylistId(url) == IF url.list = "" THEN NULL ELSE <<url.list>>

\* handleCommand: input.trim().toLowerCase() before the arguments are split
LowerCased(url) == [list |-> toLowerCase(url.list)]

\* The playlists getUserPlaylists returns, as the checkbox offers them
Discovered == [id : RemoteIds, title : {"Mix"}]

\* answers.selectedPlaylists: any of them, each at most once
Selections ==
    {sel \in UNION {[1..n -> Discovered] : n \in 0..Cardinality(RemoteIds)} :
        \A j, k \in DOMAIN sel : sel[j].id = sel[k].id => j = k}

\* SELECT * FROM sources WHERE youtube_id = ?
getSourceByYoutubeId(table, youtubeId) ==
    IF \E k \in DOMAIN table : table[k].youtube_id = youtubeId
    THEN table[CHOOSE k \in DOMAIN table : table[k].youtube_id = youtubeId]
    ELSE NULL

\* INSERT INTO sources (type, name, youtube_id): the id is the next of the
\* AUTOINCREMENT sequence, last_synced is NULL
insertSource(table, seq, source) ==
    Append(table, [id |-> seq + 1, type |-> source.type, name |-> source.name,
                   youtube_id |-> source.youtube_id, last_synced |-> NULL])

RECURSIVE AddSelected(_, _, _)
\* `for (const playlist of selectedPlaylists)`: skip the ones that exist
AddSelected(table, seq, selected) ==
    IF selected = <<>> THEN [sources |-> table, seq |-> seq]
    ELSE LET playlist == Head(selected)
         IN  IF getSourceByYoutubeId(table, playlist.id) # NULL
             THEN AddSelected(table, seq, Tail(selected))
             ELSE AddSelected(
                     insertSource(table, seq,
                        [type |-> "playlist", name |-> playlist.title,
                         youtube_id |-> playlist.id]),
                     seq + 1, Tail(selected))

\* DELETE FROM sources WHERE id = ?
deleteSource(table, id) == SelectSeq(table, LAMBDA r : r.id # id)

\* FOREIGN KEY (source_id) REFERENCES sources(id) ON DELETE SET NULL, which
\* SQLite applies only on a connection with foreign_keys on
OnDeleteSetNull(table, id) ==
    [k \in 1..Len(table) |->
        IF table[k].source_id = id THEN [table[k] EXCEPT !.source_id = NoSource]
        ELSE table[k]]

resetData_KeepTimestamps(table) ==
    [songs |-> <<>>, categories |-> <<>>, playlists |-> <<>>, playlist_songs |-> <<>>,
     sources |-> table]

\* The tables after DatabaseService.resetData
resetData(table) ==
    [songs |-> <<>>, categories |-> <<>>, playlists |-> <<>>, playlist_songs |-> <<>>,
     sources |-> [k \in 1..Len(table) |-> [table[k] EXCEPT !.last_synced = NULL]]]

\* 'sources add <url>': the lowercased input, extractPlaylistId, the lookup
\* and the insert.
SourcesAdd ==
    /\ UNCHANGED <<storeVars, remoteVars, pushVars, analyzeVars, createVars>>
    /\ UNCHANGED <<spc, syncMode, syncQueue, fetches, syncLog, prevSync, catalog>>
    /\ lastOp.n < MaxOps
    /\ \E url \in Urls :
          LET playlistId == extractPlaylistId(LowerCased(url))
              existing == IF playlistId = NULL THEN NULL
                          ELSE getSourceByYoutubeId(sources, playlistId[1])
              added == playlistId # NULL /\ existing = NULL
          IN  /\ sources' = IF added
                            THEN insertSource(sources, sourceSeq,
                                    [type |-> "playlist", name |-> "Playlist",
                                     youtube_id |-> playlistId[1]])
                            ELSE sources
              /\ sourceSeq' = IF added THEN sourceSeq + 1 ELSE sourceSeq
              /\ lastOp' = [n |-> lastOp.n + 1, op |-> "add", sources |-> sources,
                            songs |-> songs, candidates |-> <<url.list>>]

\* 'sources discover' after the listing and the checkbox returned: the loop
\* over the selected playlists.  Without a token the command ends at once.
SourcesDiscover ==
    /\ UNCHANGED <<storeVars, remoteVars, pushVars, analyzeVars, createVars>>
    /\ UNCHANGED <<spc, syncMode, syncQueue, fetches, syncLog, prevSync, catalog>>
    /\ lastOp.n < MaxOps
    /\ \E selectedPlaylists \in Selections :
          LET after == IF tokenFile THEN AddSelected(sources, sourceSeq, selectedPlaylists)
                       ELSE [sources |-> sources, seq |-> sourceSeq]
          IN  /\ sources' = after.sources
              /\ sourceSeq' = after.seq
              /\ lastOp' = [n |-> lastOp.n + 1, op |-> "discover", sources |-> sources,
                            songs |-> songs,
                            candidates |-> IF tokenFile
                                           THEN [k \in DOMAIN selectedPlaylists |->
                                                    selectedPlaylists[k].id]
                                           ELSE <<>>]

\* 'sources remove <id>': getSourceById, deleteSource.  Whether the foreign
\* key of songs acts depends on the foreign_keys default of the SQLite
\* library of the build: the constructor sets journal_mode only.
SourcesRemove ==
    /\ UNCHANGED <<categories, playlists, playlist_songs, tokenFile>>
    /\ UNCHANGED <<remoteVars, pushVars, analyzeVars, createVars>>
    /\ UNCHANGED <<spc, syncMode, syncQueue, fetches, syncLog, prevSync, catalog, sourceSeq>>
    /\ lastOp.n < MaxOps
    /\ \E id \in 1..(sourceSeq + 1) : \E foreign_keys \in BOOLEAN :
          LET found == getSourceById(id) # NULL
          IN  /\ sources' = IF found THEN deleteSource(sources, id) ELSE sources
              /\ songs' = IF found /\ foreign_keys THEN OnDeleteSetNull(songs, id)
                          ELSE songs
              /\ lastOp' = [n |-> lastOp.n + 1, op |-> "remove", sources |-> sources,
                            songs |-> songs, id |-> id, found |-> found]

\* 'reset': the confirmation prompt, then resetData when it is confirmed.
Reset ==
    /\ UNCHANGED <<tokenFile, remoteVars, pushVars, analyzeVars, createVars>>
    /\ UNCHANGED <<spc, syncMode, syncQueue, fetches, syncLog, prevSync, catalog, sourceSeq>>
    /\ lastOp.n < MaxOps
    /\ \E confirmed \in BOOLEAN :
          LET after == IF confirmed THEN resetData(sources)
                       ELSE [songs |-> songs, categories |-> categories,
                             playlists |-> playlists, playlist_songs |-> playlist_songs,
                             sources |-> sources]
          IN  /\ songs' = after.songs
              /\ categories' = after.categories
              /\ playlists' = after.playlists
              /\ playlist_songs' = after.playlist_songs
              /\ sources' = after.sources
              /\ lastOp' = [n |-> lastOp.n + 1, op |-> "reset", sources |-> sources,
                            songs |-> songs, confirmed |-> confirmed,
                            rows |-> Len(songs) + Len(categories) + Len(playlists)
                                     + Len(playlist_songs)]

(***************************************************************************)
(* Administering: no source yet and an empty library, or the source PLa    *)
(* of an earlier discover, synced, with its song classified and in a       *)
(* published playlist.                                                     *)
(***************************************************************************)
InitSources ==
    /\ \E populated \in BOOLEAN :
          /\ sources = IF populated
                       THEN << [id |-> 1, type |-> "playlist", name |-> "Mix",
                                youtube_id |-> "PLa", last_synced |-> Synced] >>
                       ELSE <<>>
          /\ songs = IF populated
                     THEN << [id |-> 1, source_id |-> 1, ai_processed |-> TRUE] >>
                     ELSE <<>>
          /\ categories = IF populated
                          THEN << [song_id |-> 1, type |-> "mood", value |-> "happy"] >>
                          ELSE <<>>
          /\ playlists = IF populated
                         THEN << [id |-> 1, name |-> "Chill",
                                  youtube_playlist_id |-> <<1, 1>>] >>
                         ELSE <<>>
          /\ playlist_songs = IF populated
                              THEN << [playlist_id |-> 1, song_id |-> 1] >>
                              ELSE <<>>
          /\ remotePlaylists = IF populated THEN {<<1, 1>>} ELSE {}
          /\ remoteItems = IF populated THEN {<< <<1, 1>>, 1 >>} ELSE {}
    /\ tokenFile \in BOOLEAN
    /\ PushIdle
    /\ AnalyzeIdle
    /\ catalog = {}
    /\ SyncIdle
    /\ CreateIdle
    /\ AdminIdle

NextSources ==
    \/ SourcesAdd
    \/ SourcesDiscover
    \/ SourcesRemove
    \/ Reset

SpecSources == InitSources /\ [][NextSources]_vars

(***************************************************************************)
(* GeminiService.suggestPlaylists and handleCreateCommand                  *)
(* (src/src/services/gemini.ts, src/src/cli/create.ts).                    *)
(***************************************************************************)
\* A property the JSON of a suggestion does not have (undefined), and one
\* that holds a list.
Absent == [present |-> FALSE, values |-> <<>>]

List(values) == [present |-> TRUE, values |-> values]

Filter(m, g, e) == [mood |-> m, genre |-> g, energy |-> e]

\* suggestion.filters as the service may return it: no dimension, a mood
\* list, genre and energy lists, a mood no song has.
Filters ==
    { Filter(Absent, Absent, Absent),
      Filter(List(<<"happy", "uplifting">>), Absent, Absent),
      Filter(Absent, List(<<"pop">>), List(<<"high">>)),
      Filter(List(<<"sad">>), Absent, Absent) }

Names == {"Chill", "Workout"}

\* An entry of "playlists": a name and its filters, or no filters property.
Suggestions == [name : Names, filters : Filters \cup {Absent}]

\* parsed.playlists || []
SuggestionLists == UNION {[1..n -> Suggestions] : n \in 0..MaxSuggestions}

\* SELECT * FROM categories WHERE song_id = ?
getCategoriesBySongId(songId) == SelectSeq(categories, LAMBDA c : c.song_id = songId)

\* songs.map(song => ({...song, moods, genres, energy})); energy is NULL or
\* <<value>> for the value of the first energy row
WithCategories(song) ==
    LET cats == getCategoriesBySongId(song.id)
        ofType(t) == SelectSeq(cats, LAMBDA c : c.type = t)
        values(rows) == [k \in 1..Len(rows) |-> rows[k].value]
    IN  [id |-> song.id,
         moods |-> values(ofType("mood")),
         genres |-> values(ofType("genre")),
         energy |-> IF ofType("energy") = <<>> \/ ofType("energy")[1].value = ""
                    THEN NULL ELSE <<ofType("energy")[1].value>>]

Matches_MoodOnly(song, filters) ==
    \/ ~filters.mood.present
    \/ \E m \in Range(filters.mood.values) : m \in Range(song.moods)

\* moodMatch && genreMatch && energyMatch
Matches(song, filters) ==
    /\ \/ ~filters.mood.present
       \/ \E m \in Range(filters.mood.values) : m \in Range(song.moods)
    /\ \/ ~filters.genre.present
       \/ \E g \in Range(filters.genre.values) : g \in Range(song.genres)
    /\ \/ ~filters.energy.present
       \/ song.energy # NULL /\ song.energy[1] \in Range(filters.energy.values)

\* songsWithCategories.filter(song => ...)
matchingSongs(suggestion, library) ==
    SelectSeq(library, LAMBDA song : Matches(song, suggestion.filters))

getPlaylistByName_None(table, name) == NULL

\* SELECT * FROM playlists WHERE name = ?
getPlaylistByName(table, name) ==
    IF \E k \in DOMAIN table : table[k].name = name
    THEN table[CHOOSE k \in DOMAIN table :
                  table[k].name = name /\ \A j \in 1..(k - 1) : table[j].name # name]
    ELSE NULL

insertPlaylist_Skip(table, playlist) == table

\* INSERT OR REPLACE INTO playlists (id, name, youtube_playlist_id, ...)
insertPlaylist(table, playlist) ==
    Append(SelectSeq(table, LAMBDA r : r.id # playlist.id), playlist)

\* DELETE FROM playlist_songs WHERE playlist_id = ?
clearPlaylistSongs(table, playlistId) ==
    SelectSeq(table, LAMBDA r : r.playlist_id # playlistId)

\* INSERT OR IGNORE INTO playlist_songs (playlist_id, song_id)
addSongToPlaylist(table, playlistId, songId) ==
    IF \E k \in DOMAIN table :
          table[k].playlist_id = playlistId /\ table[k].song_id = songId
    THEN table
    ELSE Append(table, [playlist_id |-> playlistId, song_id |-> songId])

RECURSIVE AddSongs(_, _, _)
\* for (const song of matchingSongs) db.addSongToPlaylist(id, song.id)
AddSongs(table, playlistId, matching) ==
    IF matching = <<>> THEN table
    ELSE AddSongs(addSongToPlaylist(table, playlistId, Head(matching).id),
                  playlistId, Tail(matching))

\* `pl_${Date.now()}_${Math.random()...}`: an id no row has
NewPlaylistId(table) == Len(table) + 1

\* The first of the matching songs that has no songs row any more (0: none):
\* on a connection with foreign_keys on, addSongToPlaylist throws on it
\* (FOREIGN KEY (song_id) REFERENCES songs(id))
FirstMissing(matching) ==
    LET gone == {k \in DOMAIN matching : \A j \in DOMAIN songs : songs[j].id # matching[k].id}
    IN  IF gone = {} THEN 0 ELSE CHOOSE k \in gone : \A j \in gone : k <= j

RECURSIVE ApplySuggestions(_, _, _)
\* `for (const suggestion of suggestions)`: runs without an await; reading
\* .mood of missing filters throws out of the loop, and so does a rejected
\* insert into playlist_songs.
ApplySuggestions(suggestions, library, st) ==
    IF suggestions = <<>> THEN st
    ELSE LET suggestion == Head(suggestions)
         IN  IF suggestion.filters = Absent
             THEN [st EXCEPT !.threw = TRUE]
             ELSE LET matching == matchingSongs(suggestion, library)
                      existingPlaylist == getPlaylistByName(st.playlists, suggestion.name)
                      playlistId == NewPlaylistId(st.playlists)
                      rejected == IF st.foreign_keys THEN FirstMissing(matching) ELSE 0
                      added == IF rejected = 0 THEN matching
                               ELSE SubSeq(matching, 1, rejected - 1)
                      next ==
                        IF Len(matching) = 0 THEN st
                        ELSE IF existingPlaylist # NULL
                        THEN [st EXCEPT !.playlist_songs =
                                AddSongs(clearPlaylistSongs(@, existingPlaylist.id),
                                         existingPlaylist.id, added)]
                        ELSE [st EXCEPT
                                !.playlists = insertPlaylist(@,
                                    [id |-> playlistId, name |-> suggestion.name,
                                     youtube_playlist_id |-> NULL]),
                                !.playlist_songs = AddSongs(@, playlistId, added)]
                  IN  IF rejected # 0
                      THEN [next EXCEPT !.threw = TRUE]
                      ELSE ApplySuggestions(Tail(suggestions), library, next)

\* Entry of the handler up to the request: the analyzed songs with their
\* categories, the 'No analyzed songs found' return.
CreateStart ==
    /\ UNCHANGED <<storeVars, remoteVars, pushVars, analyzeVars, syncVars, adminVars>>
    /\ cpc \in {"idle", "done"}
    /\ createRuns < MaxCreateRuns
    /\ createRuns' = createRuns + 1
    /\ LET analyzed == SelectSeq(getAllSongs, LAMBDA r : r.ai_processed)
       IN  /\ songsWithCategories' = [k \in 1..Len(analyzed) |-> WithCategories(analyzed[k])]
           /\ cpc' = IF Len(analyzed) = 0 THEN "done" ELSE "ask"
    /\ \E again \in BOOLEAN :
          /\ again => createLog.outcome = "ok"
          /\ createLog' = [suggestions |-> IF again THEN createLog.suggestions ELSE <<>>,
                           outcome |-> "none", repeat |-> again]

\* The suggestions arrived and parsed: the loop over them, to its end or to
\* the throw that the catch of the handler logs.  Whether the foreign keys
\* of playlist_songs act depends on the foreign_keys default of the SQLite
\* library of the build.
CreateSuggestOk ==
    /\ UNCHANGED <<songs, categories, tokenFile, remoteVars, pushVars, analyzeVars, syncVars, adminVars>>
    /\ cpc = "ask"
    /\ \E suggestions \in (IF createLog.repeat THEN {createLog.suggestions}
                            ELSE SuggestionLists) : \E foreign_keys \in BOOLEAN :
          LET st == ApplySuggestions(suggestions, songsWithCategories,
                       [playlists |-> playlists, playlist_songs |-> playlist_songs,
                        threw |-> FALSE, foreign_keys |-> foreign_keys])
          IN  /\ playlists' = st.playlists
              /\ playlist_songs' = st.playlist_songs
              /\ createLog' = [createLog EXCEPT
                     !.suggestions = suggestions,
                     !.outcome = IF st.threw THEN "threw"
                                 ELSE IF suggestions = <<>> THEN "empty" ELSE "ok"]
    /\ cpc' = "done"
    /\ UNCHANGED <<songsWithCategories, createRuns>>

\* generateContent rejects or the text is not JSON: suggestPlaylists throws
\* and the catch of the handler logs 'Failed to create playlists'.
CreateSuggestFail ==
    /\ UNCHANGED <<storeVars, remoteVars, pushVars, analyzeVars, syncVars, adminVars>>
    /\ cpc = "ask"
    /\ createLog' = [suggestions |-> <<>>, outcome |-> "failed", repeat |-> FALSE]
    /\ cpc' = "done"
    /\ UNCHANGED <<songsWithCategories, createRuns>>

(***************************************************************************)
(* Synthesizing: the library as analyze leaves it.  Song 1 is happy, pop   *)
(* and high, song 2 is calm and pop without an energy, song 3 is pop with  *)
(* the energy rows low and high of two entries of one reply that carried   *)
(* its index (insertCategory is a plain INSERT), song 4 is not analyzed;   *)
(* or no song is analyzed yet.  No playlist exists.                        *)
(***************************************************************************)
InitCreate ==
    /\ \E analyzed \in BOOLEAN :
          /\ songs = [k \in 1..4 |-> [id |-> k, ai_processed |-> analyzed /\ k < 4]]
          /\ categories = IF analyzed
                          THEN << [song_id |-> 1, type |-> "mood", value |-> "happy"],
                                  [song_id |-> 1, type |-> "genre", value |-> "pop"],
                                  [song_id |-> 1, type |-> "energy", value |-> "high"],
                                  [song_id |-> 2, type |-> "mood", value |-> "calm"],
                                  [song_id |-> 2, type |-> "genre", value |-> "pop"],
                                  [song_id |-> 3, type |-> "genre", value |-> "pop"],
                                  [song_id |-> 3, type |-> "energy", value |-> "low"],
                                  [song_id |-> 3, type |-> "energy", value |-> "high"] >>
                          ELSE <<>>
    /\ playlists = <<>>
    /\ playlist_songs = <<>>
    /\ tokenFile = TRUE
    /\ remotePlaylists = {}
    /\ remoteItems = {}
    /\ sources = <<>>
    /\ PushIdle
    /\ AnalyzeIdle
    /\ catalog = {}
    /\ SyncIdle
    /\ CreateIdle
    /\ AdminIdle

NextCreate ==
    \/ CreateStart
    \/ CreateSuggestOk
    \/ CreateSuggestFail

SpecCreate == InitCreate /\ [][NextCreate]_vars

(***************************************************************************)
(* A session at the prompt in which create runs while the commands that    *)
(* delete rows are entered: 'playlists clear' and 'reset' pause the        *)
(* keypress listener for their own prompt only, create does not pause it,  *)
(* so either can be entered and confirmed while create waits for the       *)
(* suggestions.  These three are the commands that write playlist_songs    *)
(* or delete playlists or songs.                                           *)
(***************************************************************************)
\* The tables after DatabaseService.clearPlaylists
clearPlaylists == [playlists |-> <<>>, playlist_songs |-> <<>>]

\* 'playlists clear': the confirmation prompt, then clearPlaylists when it
\* is confirmed.
PlaylistsClear ==
    /\ UNCHANGED <<songs, categories, tokenFile, remoteVars, pushVars, analyzeVars,
                   syncVars, createVars, sourceSeq>>
    /\ lastOp.n < MaxOps
    /\ \E confirmed \in BOOLEAN :
          /\ playlists' = IF confirmed THEN clearPlaylists.playlists ELSE playlists
          /\ playlist_songs' = IF confirmed THEN clearPlaylists.playlist_songs
                               ELSE playlist_songs
          /\ lastOp' = [n |-> lastOp.n + 1, op |-> "clear", sources |-> sources,
                        songs |-> songs, confirmed |-> confirmed,
                        rows |-> Len(playlists) + Len(playlist_songs)]

NextSession ==
    \/ CreateStart
    \/ CreateSuggestOk
    \/ CreateSuggestFail
    \/ PlaylistsClear
    \/ Reset

SpecSession == InitCreate /\ [][NextSession]_vars

(***************************************************************************)
(* Publisher claims.                                                       *)
(***************************************************************************)
CallsFor(p) == {k \in 1..Len(runCalls) : runCalls[k].pid = p}

Members(p) == {r.song_id : r \in {q \in Range(playlist_songs) : q.playlist_id = p}}

C2_NoSecondRemotePlaylist ==
    \A p \in PlaylistIds : Cardinality({r \in remotePlaylists : r[1] = p}) <= 1

\* C3: once an add-item call has failed with a quota signal, the run has ended,
\* no remote call follows the failed one, and the current playlist's remote
\* identifier is in its row.
C3_QuotaHaltsPublish ==
    quotaFailAt # 0 =>
        /\ pc = "done"
        /\ Len(runCalls) = quotaFailAt
        /\ runCalls[quotaFailAt].op = "add"
        /\ youtubePlaylistId # NULL
        /\ PlaylistRow(runPlaylists[idx].id).youtube_playlist_id = youtubePlaylistId

C3_Witness ==
    /\ quotaFailAt # 0
    /\ addedCount >= 1
    /\ idx < Len(runPlaylists)
    /\ PlaylistRow(runPlaylists[idx + 1].id).youtube_playlist_id = NULL

\* C4: a playlist that carried a remote identifier when the run started gets no
\* create-playlist and no add-item call in the run and its row stays as it was.
C4_PublishedPlaylistUntouched ==
    \A k \in 1..Len(runPlaylists) :
        runPlaylists[k].youtube_playlist_id # NULL =>
            /\ CallsFor(runPlaylists[k].id) = {}
            /\ PlaylistRow(runPlaylists[k].id) = runPlaylists[k]
            /\ createCalls[runPlaylists[k].id] >= 1

C4_Witness ==
    /\ pc = "done"
    /\ reported.kind = "complete"
    /\ reported.skipped >= 1
    /\ \E k \in 1..Len(runPlaylists) : runPlaylists[k].youtube_playlist_id # NULL

\* C5 (as claimed): when a later run completes with no failed call, every member
\* of a playlist that an earlier run left half published on quota is on the
\* remote playlist.
C5_ResumeAddsMissingMembers ==
    (pc = "done" /\ reported.kind = "complete" /\ reported.totalFailed = 0) =>
        \A p \in PlaylistIds :
            haltRun[p] = "earlier" =>
                \A m \in Members(p) :
                    <<PlaylistRow(p).youtube_playlist_id, m>> \in remoteItems

\* C5 (amended): a playlist that an earlier run left half published on quota
\* keeps its remote identifier and gets no remote call in a later run; the
\* members the platform has are those it had when the run halted.
C5_HaltedPlaylistNotResumed ==
    \A p \in PlaylistIds :
        haltRun[p] = "earlier" =>
            /\ CallsFor(p) = {}
            /\ PlaylistRow(p).youtube_playlist_id # NULL

C5_Witness ==
    /\ pc = "done"
    /\ reported.kind = "complete"
    /\ reported.created >= 1
    /\ \E p \in PlaylistIds :
          /\ haltRun[p] = "earlier"
          /\ \E m \in Members(p) :
                <<PlaylistRow(p).youtube_playlist_id, m>> \notin remoteItems

\* C6: when the member loop of a newly created playlist ends (no quota signal),
\* every member was attempted exactly once and added + failed is the number
\* of members.
C6_EveryMemberAttemptedOnce ==
    (pc = "item" /\ i >= Len(curSongs)) =>
        LET p == runPlaylists[idx].id
        IN  /\ addedCount + failedCount = Cardinality(Members(p))
            /\ \A m \in Members(p) :
                  Cardinality({k \in CallsFor(p) :
                      runCalls[k].op = "add" /\ runCalls[k].song = m}) = 1
            /\ addedCount =
                  Cardinality({m \in Members(p) : <<youtubePlaylistId, m>> \in remoteItems})

C6_Witness ==
    /\ pc = "item"
    /\ i >= Len(curSongs)
    /\ failedCount >= 1
    /\ addedCount >= 1

\* C7: the added count a run reports when it halts on quota inside a playlist
\* is the number of add-item calls the platform carried out for that playlist.
C7_ReportedAddedIsN ==
    (pc = "done" /\ reported.kind = "quota_item") =>
        reported.added =
            Cardinality({m \in SongIds :
                <<PlaylistRow(reported.pid).youtube_playlist_id, m>> \in remoteItems})

C7_Witness ==
    /\ pc = "done"
    /\ reported.kind = "quota_item"
    /\ reported.added >= 1
    /\ reported.failed >= 1

(***************************************************************************)
(* Classifier claims (handleAnalyzeCommand).                               *)
(***************************************************************************)
\* songs.ai_processed of the song with this id
IsProcessed(id) == \E k \in DOMAIN songs : songs[k].id = id /\ songs[k].ai_processed

\* SELECT ... FROM categories WHERE song_id = ?
CategoriesOf(id) == SelectSeq(categories, LAMBDA r : r.song_id = id)

C9_FailedBatchSkipped ==
    [][ /\ ( /\ Len(aiLog') = Len(aiLog) + 1
             /\ aiLog'[Len(aiLog')].outcome \in Failures )
           => /\ songs' = songs
              /\ categories' = categories
              /\ failed' = failed + Len(aiLog'[Len(aiLog')].batch)
              /\ processed' = processed
              /\ \A id \in Range(aiLog'[Len(aiLog')].batch) : ~IsProcessed(id)
        /\ ( /\ apc = "done"
             /\ apc' # "done" \/ aiLog' # aiLog )
           => \A k \in DOMAIN aiLog :
                 aiLog[k].outcome \in Failures =>
                    Range(aiLog[k].batch) \subseteq Range(unprocessedSongs')
      ]_vars

\* A finished run whose full first batch failed to parse: its songs are
\* tallied as failed, none of them is processed and none has a category.
C9_Witness ==
    /\ apc = "done"
    /\ aiLog # <<>>
    /\ aiLog[1].outcome = "parse"
    /\ Len(aiLog[1].batch) = BATCH_SIZE
    /\ failed >= BATCH_SIZE
    /\ \A id \in Range(aiLog[1].batch) : ~IsProcessed(id) /\ CategoriesOf(id) = <<>>

\* C10 (as the specification states it): after a request of a run failed with
\* a quota signal, the run issues no request for a later batch.
C10_QuotaAbortsClassify ==
    \A k \in DOMAIN aiLog :
        aiLog[k].outcome = "quota" => k = Len(aiLog)

C12_TalliesCoverSelection ==
    apc = "done" => processed + failed = Len(unprocessedSongs)

(***************************************************************************)
(* Ingestor claims (SyncService.syncSource, the sync command).             *)
(***************************************************************************)
\* C13: a syncSource that receives the listing the previous syncSource of the
\* same source received leaves the songs table as it was (same rows, same
\* count), and no sync ever leaves two rows with the same id.
C13_ResyncSameItems ==
    [][ /\ ( /\ Len(syncLog') = Len(syncLog) + 1
             /\ syncLog'[Len(syncLog')].repeat )
           => songs' = songs
        /\ \A j, k \in DOMAIN songs' : songs'[j].id = songs'[k].id => j = k
      ]_vars

\* A sync run in which a source was synced again with the listing of its
\* previous sync, tracks included.
C13_Witness ==
    /\ spc = "done"
    /\ songs # <<>>
    /\ \E k \in DOMAIN syncLog : syncLog[k].repeat /\ syncLog[k].outcome = "ok"

\* C14: every step of a sync leaves each existing songs row as it is (id,
\* title, artist, source_id, ai_processed), also when the listing holds its
\* id with another title or artist or comes from another source.
C14_ExistingRowUntouched ==
    [][ \A k \in DOMAIN songs : k \in DOMAIN songs' /\ songs'[k] = songs[k] ]_vars

\* A finished sync whose listing held the id of the one stored song, already
\* classified, under another title or for another source.
C14_Witness ==
    /\ spc = "done"
    /\ Len(songs) = 1
    /\ songs[1].ai_processed
    /\ \E k \in DOMAIN syncLog : syncLog[k].conflict

\* C15 (as the specification states it): a source whose syncSource returned
\* without error has a last_synced timestamp, also when no track was left to
\* save.
C15_SyncedSourceHasTimestamp ==
    \A k \in DOMAIN syncLog :
        syncLog[k].outcome \in {"ok", "empty"} =>
            getSourceById(syncLog[k].source).last_synced # NULL

\* C16 (as the specification states it): a sync over all sources in which
\* only non-quota errors occurred has called syncSource for every source.
C16_FailedSourceSkipped ==
    ( /\ spc = "done"
      /\ syncMode = "all"
      /\ syncLog # <<>>
      /\ \A k \in DOMAIN syncLog : syncLog[k].outcome = "error" => ~syncLog[k].quota )
    => Len(syncLog) = Len(sources)

(***************************************************************************)
(* Synthesizer claims (handleCreateCommand).                               *)
(***************************************************************************)
\* The song ids of the playlist_songs rows of one playlist
MembersIn(table, playlistId) ==
    {r.song_id : r \in {q \in Range(table) : q.playlist_id = playlistId}}

\* The ids of the songs of the run's library that a suggestion matches
MatchSet(suggestion) ==
    {song.id : song \in Range(matchingSongs(suggestion, songsWithCategories))}

HasRow(table, name) == \E k \in DOMAIN table : table[k].name = name

\* The step in which a create run consumes the suggestions it asked for.
SuggestionsConsumed == cpc = "ask" /\ cpc' = "done"

\* C17: a create run that receives the suggestions the previous run received
\* and completed with leaves the playlists table as it was and every
\* playlist with the same set of members; afterwards no (playlist, song)
\* pair occurs twice and no two playlists have the same name.
C17_SynthesisIdempotent ==
    [][ ( /\ SuggestionsConsumed
          /\ createLog'.repeat
          /\ createLog'.outcome = "ok" )
        => /\ playlists' = playlists
           /\ \A k \in DOMAIN playlists :
                 MembersIn(playlist_songs', playlists[k].id)
                    = MembersIn(playlist_songs, playlists[k].id)
           /\ \A j, k \in DOMAIN playlist_songs' :
                 playlist_songs'[j] = playlist_songs'[k] => j = k
           /\ \A j, k \in DOMAIN playlists' :
                 playlists'[j].name = playlists'[k].name => j = k
      ]_vars

\* A second run that got the suggestions of the first, with a playlist that
\* has members.
C17_Witness ==
    /\ cpc = "done"
    /\ createLog.repeat
    /\ createLog.outcome = "ok"
    /\ playlists # <<>>
    /\ playlist_songs # <<>>

\* C18 (as the specification states it): after a create run that went through
\* all its suggestions (no two of the same name), a playlist named like a
\* suggestion has exactly the songs the suggestion matches, also when it
\* matches none.
C18_MembershipIsMatchSet ==
    ( /\ cpc = "done"
      /\ createLog.outcome = "ok"
      /\ \A j, k \in DOMAIN createLog.suggestions :
            createLog.suggestions[j].name = createLog.suggestions[k].name => j = k )
    => \A k \in DOMAIN createLog.suggestions :
          \A r \in Range(playlists) :
              r.name = createLog.suggestions[k].name
                 => Members(r.id) = MatchSet(createLog.suggestions[k])

\* C19 (as the specification states it): after a create run that went through
\* all its suggestions, a playlist row exists for the name of each of them.
C19_EverySuggestionRecorded ==
    ( /\ cpc = "done"
      /\ createLog.outcome = "ok" )
    => \A k \in DOMAIN createLog.suggestions :
          HasRow(playlists, createLog.suggestions[k].name)

\* C19 (what the code does): a create run that goes through all its
\* suggestions leaves a playlist row of a given name exactly when one existed
\* before or a suggestion of that name matches at least one song; a
\* suggestion that matches no song creates no row.
C19_RecordedIffMatched ==
    [][ ( /\ SuggestionsConsumed
          /\ createLog'.outcome = "ok" )
        => \A name \in Names :
              HasRow(playlists', name)
                 <=> \/ HasRow(playlists, name)
                     \/ \E k \in DOMAIN createLog'.suggestions :
                           /\ createLog'.suggestions[k].name = name
                           /\ MatchSet(createLog'.suggestions[k]) # {}
      ]_vars

\* A finished run with a suggestion that matched no song and has no row, and
\* another one that matched and has a row.
C19_Witness ==
    /\ cpc = "done"
    /\ createLog.outcome = "ok"
    /\ \E k \in DOMAIN createLog.suggestions :
          /\ MatchSet(createLog.suggestions[k]) = {}
          /\ ~HasRow(playlists, createLog.suggestions[k].name)
    /\ \E k \in DOMAIN createLog.suggestions :
          /\ MatchSet(createLog.suggestions[k]) # {}
          /\ HasRow(playlists, createLog.suggestions[k].name)

\* C20 (as the specification states it): a create run whose response does not
\* parse, or has a suggestion without filters, leaves playlists and
\* playlist_songs exactly as they were.
C20_InvalidResponseWritesNothing ==
    [][ ( /\ SuggestionsConsumed
          /\ createLog'.outcome \in {"failed", "threw"} )
        => /\ playlists' = playlists
           /\ playlist_songs' = playlist_songs
      ]_vars

\* The values of the category rows of one type that a song has
ValuesOf(songId, t) ==
    {c.value : c \in {r \in Range(categories) : r.song_id = songId /\ r.type = t}}

\* The value of the first energy row of a song, as a set: what
\* `categories.find(c => c.type === 'energy')?.value || null` keeps
FirstEnergy(songId) ==
    LET rows == SelectSeq(categories,
                    LAMBDA c : c.song_id = songId /\ c.type = "energy")
    IN  IF rows = <<>> \/ rows[1].value = "" THEN {} ELSE {rows[1].value}

\* The analyzed songs whose values meet the list of every dimension that
\* the filters have; the energy values of a song are those of all its
\* energy rows, or of the first only
Intersecting(filters, firstOnly) ==
    {song.id : song \in
        {r \in Range(songsWithCategories) :
            /\ filters.mood.present
                  => ValuesOf(r.id, "mood") \cap Range(filters.mood.values) # {}
            /\ filters.genre.present
                  => ValuesOf(r.id, "genre") \cap Range(filters.genre.values) # {}
            /\ filters.energy.present
                  => (IF firstOnly THEN FirstEnergy(r.id)
                                   ELSE ValuesOf(r.id, "energy"))
                        \cap Range(filters.energy.values) # {}}}

C22_PlaylistNamesUnique ==
    \A j, k \in DOMAIN playlists : playlists[j].name = playlists[k].name => j = k

\* A finished run whose reply had two suggestions of one name that both
\* matched songs, after an earlier run had written a playlist.
C22_Witness ==
    /\ cpc = "done"
    /\ createRuns > 1
    /\ createLog.outcome = "ok"
    /\ \E j, k \in DOMAIN createLog.suggestions :
          /\ j # k
          /\ createLog.suggestions[j].name = createLog.suggestions[k].name
          /\ MatchSet(createLog.suggestions[j]) # {}
          /\ MatchSet(createLog.suggestions[k]) # {}
          /\ HasRow(playlists, createLog.suggestions[j].name)
    /\ Len(playlists) > 1

(***************************************************************************)
(* Claims about the prompt and the store as a whole.                       *)
(***************************************************************************)
\* C23 (as the specification states it): a step of a run never clears or
\* changes the remote id of a playlist row that has one: the row, as long as
\* it exists, keeps its youtube_playlist_id.
C23_RemoteIdNeverChanges ==
    [][ \A r \in Range(playlists) :
            r.youtube_playlist_id # NULL
               => \A q \in Range(playlists') :
                     q.id = r.id => q.youtube_playlist_id = r.youtube_playlist_id
      ]_vars

\* C28 (as the specification states it): no handleCommand invocation starts
\* while an earlier one waits at a remote call, so none is ever kept waiting
\* beside a running one.
C28_OneCommandAtATime == suspended = <<>>

\* C24: after a confirmed reset the sources table has the rows it had, with
\* their ids, names and remote ids, every last_synced is NULL, and songs,
\* categories, playlists and playlist_songs are empty.
C24_ResetScope ==
    ( /\ lastOp.op = "reset"
      /\ lastOp.confirmed )
    => /\ songs = <<>>
       /\ categories = <<>>
       /\ playlists = <<>>
       /\ playlist_songs = <<>>
       /\ Len(sources) = Len(lastOp.sources)
       /\ \A k \in DOMAIN sources :
             /\ sources[k].id = lastOp.sources[k].id
             /\ sources[k].name = lastOp.sources[k].name
             /\ sources[k].youtube_id = lastOp.sources[k].youtube_id
             /\ sources[k].last_synced = NULL

\* A confirmed reset of a store that had rows in the four tables and a
\* synced source.
C24_Witness ==
    /\ lastOp.op = "reset"
    /\ lastOp.confirmed
    /\ lastOp.rows >= 4
    /\ \E k \in DOMAIN lastOp.sources : lastOp.sources[k].last_synced = Synced
    /\ Len(sources) > 1

\* C25 (as the specification states it): no two rows of sources have the
\* same remote id, and a 'sources add' or 'sources discover' inserts a row
\* only for the candidates whose remote id no row had: a candidate that
\* exists already is skipped.
C25_ExistingCandidateSkipped ==
    /\ \A j, k \in DOMAIN sources :
          sources[j].youtube_id = sources[k].youtube_id => j = k
    /\ lastOp.op \in {"add", "discover"}
          => Len(sources) = Len(lastOp.sources)
                + Cardinality({c \in Range(lastOp.candidates) :
                      /\ c # ""
                      /\ \A r \in Range(lastOp.sources) : r.youtube_id # c})

\* C26 (as the specification states it): after 'sources remove <id>' of a
\* source that exists no song refers to the id and the songs table has as
\* many rows as before.
C26_RemoveNullsReferences ==
    ( /\ lastOp.op = "remove"
      /\ lastOp.found )
    => /\ \A r \in Range(songs) : r.source_id # lastOp.id
       /\ Len(songs) = Len(lastOp.songs)

\* C27 (as the specification states it): without a token file that loads, a
\* push run issues no request to the platform and leaves the playlists as
\* they were (no row gets a remote id).
C27_UnauthenticatedPushStops ==
    ~tokenFile
       => /\ runCalls = <<>>
          /\ \A r \in Range(playlists) : r.youtube_playlist_id = NULL

(***************************************************************************)
(* Classifier claims, continued.                                           *)
(***************************************************************************)
\* 'Batches 20 songs per API request' (README, Features)
DocumentedBatch == 20

RECURSIVE Batches(_)
\* The batches of the calls of a run, one after the other
Batches(log) == IF log = <<>> THEN <<>> ELSE Head(log).batch \o Batches(Tail(log))

\* C29: when a classify run has ended, the batches of its AI calls, in call
\* order, are consecutive pieces of the selection that together make up the
\* selection (every selected song is in exactly one batch, and no batch is
\* sent twice); no batch is empty or longer than BATCH_SIZE, which is at most
\* the 20 songs the documentation names.
C29_BatchesPartitionSelection ==
    apc = "done"
       => /\ Batches(aiLog) = unprocessedSongs
          /\ \A k \in DOMAIN aiLog :
                /\ Len(aiLog[k].batch) >= 1
                /\ Len(aiLog[k].batch) <= BATCH_SIZE
                /\ Len(aiLog[k].batch) <= DocumentedBatch
          /\ \A j, k \in DOMAIN aiLog : aiLog[j].batch = aiLog[k].batch => j = k

\* A finished run over more songs than one batch holds: a full batch whose
\* call failed and was not repeated, then the rest.
C29_Witness ==
    /\ apc = "done"
    /\ Len(unprocessedSongs) > BATCH_SIZE
    /\ Len(aiLog) = 2
    /\ Len(aiLog[1].batch) = BATCH_SIZE
    /\ aiLog[1].outcome \in Failures
    /\ aiLog[2].outcome = "ok"

\* The entries of a response whose index is one of 1..Len(batch), in order,
\* each with the id of the song at that position of the batch
Kept(response, batch) ==
    LET inRange == SelectSeq(response, LAMBDA e : e.song_id \in 1..Len(batch))
    IN  [k \in 1..Len(inRange) |->
            [song_id |-> batch[inRange[k].song_id], mood |-> inRange[k].mood,
             genre |-> inRange[k].genre, energy |-> inRange[k].energy]]

\* The songs that in-range entries of the responses of this run named
Covered == UNION {aiLog[k].covered : k \in DOMAIN aiLog}

\* C30: parseResponse keeps of a response to the batch at hand exactly the
\* entries whose index is one of 1..Len(batch), entry i with the id of the
\* i-th song of the batch, whatever the response is; the in-range entries of
\* a call name songs of its batch; a song of the selection is marked only if
\* an in-range entry of this run named it, and, as long as no earlier run
\* wrote rows, every category row belongs to such a song.
C30_OutOfRangeDiscarded ==
    /\ ( apc = "batch" /\ bi < Len(unprocessedSongs) )
          => \A response \in Responses :
                parseResponse(response, Slice(unprocessedSongs, bi))
                   = Kept(response, Slice(unprocessedSongs, bi))
    /\ \A k \in DOMAIN aiLog : aiLog[k].covered \subseteq Range(aiLog[k].batch)
    /\ \A id \in Range(unprocessedSongs) : IsProcessed(id) => id \in Covered
    /\ aiCalls = Len(aiLog)
          => \A k \in DOMAIN categories : categories[k].song_id \in Covered

\* After a first call that marked the songs its in-range entries named and
\* no other: a second batch at hand, shorter than the first, for which a
\* response has an entry inside and an entry outside it, and parseResponse
\* keeps the former only.
C30_Witness ==
    /\ apc = "batch"
    /\ bi < Len(unprocessedSongs)
    /\ Len(aiLog) = 1
    /\ aiLog[1].outcome = "ok"
    /\ aiLog[1].covered # {}
    /\ \A id \in Range(aiLog[1].batch) :
          IsProcessed(id) <=> id \in aiLog[1].covered
    /\ LET batch == Slice(unprocessedSongs, bi)
       IN  \E response \in Responses :
              /\ \E k \in DOMAIN response : response[k].song_id > Len(batch)
              /\ \E k \in DOMAIN response : response[k].song_id \in 1..Len(batch)
              /\ parseResponse(response, batch) # <<>>
              /\ Len(parseResponse(response, batch)) < Len(response)

\* C31: when a push run reaches its summary, the playlists it counted as
\* created or skipped (the summary has no count of failed playlists) add up
\* to the playlists it examined, so that a playlist whose creation failed
\* on an error other than quota is in the counts.
C31_CountsCoverPlaylists ==
    reported.kind = "complete"
       => reported.created + reported.skipped = Len(runPlaylists)

(***************************************************************************)
(* Ingestor claims on the text of a video (SyncService).                   *)
(***************************************************************************)
\* The text the platform delivers for a video: its title and its channel name
DeliveredText(item) == item.title \o <<Blank>> \o item.channelTitle

\* C32: no songs row is stored for a video whose delivered title or channel
\* name holds one of the non-music terms, and after a fetch that returned,
\* every other listed video has a songs row.
C32_NoNonMusicStored ==
    /\ \A k \in DOMAIN songs : \A item \in catalog :
          item.id = songs[k].id => ~SomePatternMatches(DeliveredText(item))
    /\ \A k \in DOMAIN prevSync.videos :
          ~SomePatternMatches(DeliveredText(prevSync.videos[k]))
             => \E j \in DOMAIN songs : songs[j].id = prevSync.videos[k].id

\* The position of the first occurrence of a separator in a text (0: none)
FirstAt(str, sep) ==
    IF \E n \in DOMAIN str : str[n] = sep
    THEN CHOOSE n \in DOMAIN str : str[n] = sep /\ \A m \in 1..(n - 1) : str[m] # sep
    ELSE 0

\* The separators that occur in a text with text before them, by priority
Qualifying(str) == {k \in DOMAIN separators : FirstAt(str, separators[k]) > 1}

\* A text without a trailing ' - Topic' marker, surrounding blanks removed
WithoutTopic(str) ==
    IF /\ Len(str) >= 2
       /\ str[Len(str) - 1] = " - "
       /\ str[Len(str)] \in {"Topic", "topic"}
    THEN trim(SubSeq(str, 1, Len(str) - 2))
    ELSE trim(str)

\* Artist and title as C33 states them (surrounding blanks removed)
Stated(title, channelTitle) ==
    IF Qualifying(title) = {}
    THEN [artist |-> WithoutTopic(channelTitle), cleanTitle |-> title]
    ELSE LET k == CHOOSE q \in Qualifying(title) : \A r \in Qualifying(title) : q <= r
             n == FirstAt(title, separators[k])
         IN  [artist |-> WithoutTopic(SubSeq(title, 1, n - 1)),
              cleanTitle |-> trim(SubSeq(title, n + 1, Len(title)))]

C34_FailedFetchStoresNothing ==
    [][ ( /\ Len(syncLog') = Len(syncLog) + 1
          /\ syncLog'[Len(syncLog')].outcome = "error" )
        => /\ storeVars' = storeVars
           /\ sources' = sources
      ]_vars

\* A sync that ended on a fetch that failed after a page had arrived, with
\* no song stored and no source stamped.
C34_Witness ==
    /\ spc = "done"
    /\ syncLog # <<>>
    /\ syncLog[Len(syncLog)].outcome = "error"
    /\ syncLog[Len(syncLog)].partial
    /\ songs = <<>>
    /\ \A k \in DOMAIN sources : sources[k].last_synced = NULL

(***************************************************************************)
(* Classifier claims on the categories table (handleAnalyzeCommand).       *)
(***************************************************************************)
\* C35: at the end of every analyze run, every song that has a categories
\* row is marked ai_processed, also when an insertCategory of a batch threw.
C35_CategorizedImpliesMarked ==
    apc = "done"
       => \A k \in DOMAIN categories : IsProcessed(categories[k].song_id)

(***************************************************************************)
(* Claims on the tables across commands.                                   *)
(***************************************************************************)
\* C36: every playlist_songs row refers to a playlists row that exists and
\* to a songs row that exists and is marked ai_processed.
C36_MembershipRefersToRows ==
    \A k \in DOMAIN playlist_songs :
        /\ \E p \in DOMAIN playlists : playlists[p].id = playlist_songs[k].playlist_id
        /\ \E j \in DOMAIN songs :
              songs[j].id = playlist_songs[k].song_id /\ songs[j].ai_processed

\* C37: a song that is marked ai_processed, by a run of whatever type, is
\* in the selection of no run that starts afterwards, whatever its type, and
\* no step of analyze adds a categories row for it.
C37_MarkedSongLeftAlone ==
    [][ /\ apc \in {"idle", "done"}
              => \A id \in Range(unprocessedSongs') : ~IsProcessed(id)
        /\ Len(aiLog') = Len(aiLog) + 1
              => \A id \in Range(aiLog'[Len(aiLog')].batch) : ~IsProcessed(id)
        /\ Len(categories') >= Len(categories)
        /\ SubSeq(categories', 1, Len(categories)) = categories
        /\ \A k \in (Len(categories) + 1)..Len(categories') :
              ~IsProcessed(categories'[k].song_id)
      ]_vars

\* A run for genre that started after a run for mood had marked the only
\* song: it selected nothing and issued no request, and the song has its
\* mood rows only.
C37_Witness ==
    /\ apc = "done"
    /\ type = "genre"
    /\ aiCalls = 1
    /\ aiLog = <<>>
    /\ unprocessedSongs = <<>>
    /\ Len(songs) = 1
    /\ songs[1].ai_processed
    /\ categories # <<>>
    /\ \A k \in DOMAIN categories : categories[k].type = "mood"

(***************************************************************************)
(* Claims on the sources table (handleSourcesCommand).                     *)
(***************************************************************************)
\* C38: the youtube_id of the row that 'sources add <url>' inserted is the
\* list parameter of the URL as the user typed it.
C38_StoredIdAsTyped ==
    ( /\ lastOp.op = "add"
      /\ Len(sources) = Len(lastOp.sources) + 1 )
    => sources[Len(sources)].youtube_id = lastOp.candidates[1]

\* C39: no song has more than one categories row of type energy.
C39_OneEnergyRow ==
    \A j, k \in DOMAIN categories :
        ( /\ categories[j].type = "energy"
          /\ categories[k].type = "energy"
          /\ categories[j].song_id = categories[k].song_id )
        => j = k

=============================================================================
